---- MODULE Spec2Model ----
(***************************************************************************)
(* gpio-segled: the scanning engine of the GPIO seven-segment LED driver.  *)
(*                                                                         *)
(* One Display (struct gpio_segled_device) is modelled: its attributes,    *)
(* its scan state, the levels of its twelve GPIO lines, its hrtimer and    *)
(* its work item.  Characters are ASCII codes, C arrays are functions on   *)
(* 0..N-1.                                                                 *)
(*                                                                         *)
(* Execution contexts:                                                     *)
(*   - the hrtimer callback gpio_segled_digit_timer_tick runs in interrupt *)
(*     context and is one atomic step;                                     *)
(*   - execute_update_digits runs on a kernel worker in process context,   *)
(*     one step per access to shared state or GPIO write, so the timer     *)
(*     callback and the attribute writers interleave with it;              *)
(*   - the sysfs store handlers and the teardown run in process context.   *)
(*                                                                         *)
(* Specifications:                                                         *)
(*   Spec       the concurrency of the engine: the timer may expire at any *)
(*              instant while it is armed (every schedule of deadlines is  *)
(*              covered, so the clock is not tracked, nor refresh_rate_hz, *)
(*              which only the period computation reads);                  *)
(*   SpecClock  the hrtimer deadline and the clock are tracked, for a      *)
(*              bounded number of expiries, on the schedules where each    *)
(*              dispatch finishes before the next expiry;                  *)
(*   SpecScan   the advance step alone, applied repeatedly to Displays     *)
(*              whose attributes are drawn from their whole ranges;        *)
(*   SpecDigits the writer of the digits attribute, fed texts of every     *)
(*              shape, and the advance step that reads what it stored;     *)
(*   SpecNumbers the writers of the refresh and brightness attributes, fed *)
(*              texts of every shape, and the advance step;                *)
(*   SpecProbe  gpio_segled_probe setting up the Displays of the device    *)
(*              tree, each call that can fail failing or not;              *)
(*   SpecAdjust the clocked engine with seg-adjust on, showing a '1' and a *)
(*              '4', at every brightness the attribute can hold;           *)
(*   SpecRate   the clocked engine at full duty cycle, with refresh rates  *)
(*              whose product with NUM_DIGITS exceeds an unsigned long;    *)
(*   SpecShow   the clocked engine showing a fixed content, each dispatch   *)
(*              finishing before the next expiry;                          *)
(*   SpecLive   the engine running for ever on a fixed content, the timer   *)
(*              and the workqueue weakly fair, expiries falling anywhere;  *)
(*   SpecWrite  digits_store taken one store at a time, the timer callback  *)
(*              interrupting it anywhere;                                  *)
(*   SpecEcho   writes to the digits attribute, among them the text that   *)
(*              digits_show returns for the content stored;                *)
(*   SpecIndex  a Display with seg-adjust: the timer callback, the         *)
(*              dispatcher and digits_store taken one store at a time, on  *)
(*              an empty and on an overlong text;                          *)
(*   SpecOrder  the engine with its timer firings numbered and its work    *)
(*              item served by a pool of two workers, for a bounded number *)
(*              of firings that may fall anywhere in a dispatch.           *)
(***************************************************************************)
EXTENDS Integers, Naturals, Sequences, FiniteSets, TLC

----------------------------------------------------------------------------
(* Program constants *)

NUM_DIGITS == 4

DEFAULT_REFRESH_RATE_HZ == 100

DEFAULT_BRIGHTNESS_PERCENT == 100

SEGLED_GPIO_SEGMENT_A == 0

SEGLED_GPIO_SEGMENT_P == 7

SEGLED_GPIO_DIGIT_1 == 8

SEGLED_GPIO_MAX == 12

\* the literal 1000000000 of the timer callback: nanoseconds per second
NSEC_PER_SEC == 1000000000

\* the width of unsigned long on the platform the project builds for
BITS_PER_LONG == 32

----------------------------------------------------------------------------
(* Bounds of the model *)

\* timer expiries followed by SpecClock
MaxTicks == 5

\* ktime_get() at probe, in ns
StartTime == 7000

\* the latest a timer callback runs after its deadline, in ns
Jitter == 900

\* child nodes the device tree lists for the driver, at most
MaxChildren == 3

\* the kernel worker that runs the work item
Workers == {"kworker"}

\* the kernel workers under SpecOrder: the work item may run on either
Pool == {"kworker", "kworker2"}

\* texts written to the digits attribute: "1.8"
DigitsInputs == { <<49, 46, 56>> }

\* texts written to the brightness attribute under Spec: "50" and "x"
BrightnessInputs == { <<53, 48>>, <<120>> }

\* texts written to the brightness attribute under SpecClock: "50" and "0"
ClockBrightnessInputs == { <<53, 48>>, <<48>> }

\* texts written to the refresh attribute under SpecClock: "30" and "x"
RefreshInputs == { <<51, 48>>, <<120>> }

\* texts written to the digits attribute under SpecDigits: "", "1.2", "12",
\* ".12", ".1", "1234", "1234.", "12345", "1.2.3.4", "1..2", "1\n", "12\n34",
\* "1\1772" (a DEL byte) and "."
StoreDigitsInputs ==
    { << >>, <<49, 46, 50>>, <<49, 50>>, <<46, 49, 50>>, <<46, 49>>,
      <<49, 50, 51, 52>>, <<49, 50, 51, 52, 46>>, <<49, 50, 51, 52, 53>>,
      <<49, 46, 50, 46, 51, 46, 52>>, <<49, 46, 46, 50>>, <<49, 10>>,
      <<49, 50, 10, 51, 52>>, <<49, 127, 50>>, <<46>> }

\* texts written to the brightness attribute under SpecNumbers: "50", "150",
\* "-5", "0", " 7", "5x", "x", "x1", "-" and ""
StoreBrightnessInputs ==
    { <<53, 48>>, <<49, 53, 48>>, <<45, 53>>, <<48>>, <<32, 55>>, <<53, 120>>,
      <<120>>, <<120, 49>>, <<45>>, << >> }

\* texts written to the refresh attribute under SpecNumbers: "30", "0", "x",
\* "-5" and ""
StoreRefreshInputs ==
    { <<51, 48>>, <<48>>, <<120>>, <<45, 53>>, << >> }

\* characters shown under SpecScan: the font's alphabet (space, '-', 0-9,
\* A-Z) and three characters outside it ('!', '.', 'a')
ScanChars == {32, 45} \cup (48 .. 57) \cup (65 .. 90) \cup {33, 46, 97}

\* brightness settings under SpecScan
ScanBrightness == 0 .. 100

\* texts written to the refresh attribute under SpecRate: 30, 300,000,000
\* and 2^30 + 1
RateInputs ==
    { <<51, 48>>, <<51, 48, 48, 48, 48, 48, 48, 48, 48>>,
      <<49, 48, 55, 51, 55, 52, 49, 56, 50, 53>> }

\* the contents shown under SpecShow: "  12", and "1.8 -." with two points
ShowContents ==
    { [digits |-> <<32, 32, 49, 50>>,
       decimal_points |-> <<FALSE, FALSE, FALSE, FALSE>>],
      [digits |-> <<49, 56, 32, 45>>,
       decimal_points |-> <<TRUE, FALSE, FALSE, TRUE>>] }

\* brightness settings under SpecShow
ShowBrightness == {50, 100}

\* texts written to the digits attribute under SpecWrite: "12", "1.8", "1234"
WriteInputs == { <<49, 50>>, <<49, 46, 56>>, <<49, 50, 51, 52>> }

\* texts written to the digits attribute under SpecEcho: "", "12", "1.2",
\* "123.", "1234", "1.2.3.4" and ".1"
EchoInputs ==
    { << >>, <<49, 50>>, <<49, 46, 50>>, <<49, 50, 51, 46>>,
      <<49, 50, 51, 52>>, <<49, 46, 50, 46, 51, 46, 52>>, <<46, 49>> }

\* texts written to the digits attribute under SpecIndex: the empty text and
\* the six bytes '.', 0xC8, '.', '1', '1', '1', which supply five characters
IndexInputs ==
    { << >>, <<46, 200, 46, 49, 49, 49>> }

\* brightness settings and refresh rates under SpecAdjust
AdjustBrightness == -8 .. 208

AdjustRefresh == {30, 100}

\* the text shown under SpecAdjust: " 14 "; the scan selects digits[1], the
\* '1', first and digits[2], the '4', next
AdjustDigits == <<32, 49, 52, 32>>

----------------------------------------------------------------------------
(* Pure helpers *)

Digits == 0 .. (NUM_DIGITS - 1)

\* C integer division (truncation toward zero)
CDiv(a, b) == IF a >= 0 THEN a \div b ELSE -((-a) \div b)

\* mutant: a lowercase letter is shown as its uppercase letter ('a' as 'A')
map_to_seg7_lower(c) ==
    CASE c = 48 -> 63  [] c = 49 -> 6   [] c = 50 -> 91  [] c = 51 -> 79
      [] c = 52 -> 102 [] c = 53 -> 109 [] c = 54 -> 125 [] c = 55 -> 7
      [] c = 56 -> 127 [] c = 57 -> 111
      [] c = 45 -> 64
      [] c = 65 \/ c = 97 -> 119
      [] c = 66 -> 126 [] c = 67 -> 57  [] c = 68 -> 62
      [] c = 69 -> 121 [] c = 70 -> 113 [] c = 71 -> 125 [] c = 72 -> 118
      [] c = 73 -> 6   [] c = 74 -> 14  [] c = 75 -> 118 [] c = 76 -> 56
      [] c = 77 -> 55  [] c = 78 -> 55  [] c = 79 -> 63  [] c = 80 -> 115
      [] c = 81 -> 63  [] c = 82 -> 119 [] c = 83 -> 109 [] c = 84 -> 49
      [] c = 85 -> 62  [] c = 86 -> 62  [] c = 87 -> 62  [] c = 88 -> 118
      [] c = 89 -> 114 [] c = 90 -> 91
      [] OTHER -> 0

\* the seven-segment font (bit 0 = A ... bit 6 = G)
map_to_seg7(c) ==
    CASE c = 48 -> 63  [] c = 49 -> 6   [] c = 50 -> 91  [] c = 51 -> 79
      [] c = 52 -> 102 [] c = 53 -> 109 [] c = 54 -> 125 [] c = 55 -> 7
      [] c = 56 -> 127 [] c = 57 -> 111
      [] c = 45 -> 64
      [] c = 65 -> 119 [] c = 66 -> 126 [] c = 67 -> 57  [] c = 68 -> 62
      [] c = 69 -> 121 [] c = 70 -> 113 [] c = 71 -> 125 [] c = 72 -> 118
      [] c = 73 -> 6   [] c = 74 -> 14  [] c = 75 -> 118 [] c = 76 -> 56
      [] c = 77 -> 55  [] c = 78 -> 55  [] c = 79 -> 63  [] c = 80 -> 115
      [] c = 81 -> 63  [] c = 82 -> 119 [] c = 83 -> 109 [] c = 84 -> 49
      [] c = 85 -> 62  [] c = 86 -> 62  [] c = 87 -> 62  [] c = 88 -> 118
      [] c = 89 -> 114 [] c = 90 -> 91
      [] OTHER -> 0

\* mutant: the loop stops before SEGLED_GPIO_SEGMENT_P, the decimal point
RECURSIVE SegmentsLitAtoG(_, _)
SegmentsLitAtoG(segs, gpio) ==
    IF gpio >= SEGLED_GPIO_SEGMENT_P THEN 0
    ELSE (segs % 2) + SegmentsLitAtoG(segs \div 2, gpio + 1)

\* the loop over SEGLED_GPIO_SEGMENT_A..P counting (segments_out & 1), >>= 1
RECURSIVE SegmentsLit(_, _)
SegmentsLit(segs, gpio) ==
    IF gpio > SEGLED_GPIO_SEGMENT_P THEN 0
    ELSE (segs % 2) + SegmentsLit(segs \div 2, gpio + 1)

\* mutant: a duty cycle of 0 counts as valid, so the engine rests at 0
NextRestingZeroValid(rest, duty) ==
    IF duty >= 0 /\ duty < 100 THEN ~rest ELSE FALSE

\* if (duty_cycle_percent > 0 && < 100) resting = !resting; else resting = 0
NextResting(rest, duty) ==
    IF duty > 0 /\ duty < 100 THEN ~rest ELSE FALSE

\* mutant: wraps one digit early, the last digit is never selected
NextDigitEarlyWrap(a) ==
    IF a + 1 >= NUM_DIGITS - 1 THEN 0 ELSE a + 1

\* if (++active_digit >= NUM_DIGITS) active_digit = 0
NextDigit(a) ==
    IF a + 1 >= NUM_DIGITS THEN 0 ELSE a + 1

\* segments_out = map_to_seg7(digits[active]); if (decimal_points[active]) |= 0x80
SegmentsOut(c, dp) ==
    map_to_seg7(c) + (IF dp THEN 128 ELSE 0)

\* mutant: the seg-adjust flag is not tested
DutyCycleAlwaysAdjust(segs, brightness, adjust) ==
    CDiv(brightness * SegmentsLit(segs, SEGLED_GPIO_SEGMENT_A), 8)

\* mutant: divides by the seven segments A..G
DutyCycleBy7(segs, brightness, adjust) ==
    IF adjust
    THEN CDiv(brightness * SegmentsLit(segs, SEGLED_GPIO_SEGMENT_A), 7)
    ELSE brightness

\* mutant: the seg-adjust scaling rounds to the nearest percent
DutyCycleRounded(segs, brightness, adjust) ==
    IF adjust
    THEN CDiv(brightness * SegmentsLit(segs, SEGLED_GPIO_SEGMENT_A) + 4, 8)
    ELSE brightness

\* duty_cycle_percent = brightness_percent; if (seg_adjust) ... * segments_lit / 8
DutyCycle(segs, brightness, adjust) ==
    IF adjust
    THEN CDiv(brightness * SegmentsLit(segs, SEGLED_GPIO_SEGMENT_A), 8)
    ELSE brightness

\* period = 1000000000 / (NUM_DIGITS * refresh_rate_hz), the product taken in
\* unsigned long: modulo 2^BITS_PER_LONG it is NUM_DIGITS times (refresh
\* modulo 2^BITS_PER_LONG / NUM_DIGITS), and a product of 2^(BITS_PER_LONG - 1)
\* or more exceeds the dividend
NominalPeriod(refresh) ==
    LET r == refresh % (2 ^ (BITS_PER_LONG - 2))
    IN  IF r >= 2 ^ (BITS_PER_LONG - 3) THEN 0
        ELSE NSEC_PER_SEC \div (NUM_DIGITS * r)

\* mutant: multiplies before it divides by 100
TimerPeriodMultiplyFirst(refresh, rest, duty) ==
    IF duty > 0 /\ duty < 100
    THEN (NominalPeriod(refresh) * (IF rest THEN 100 - duty ELSE duty)) \div 100
    ELSE NominalPeriod(refresh)

\* period = period / 100 * (resting ? (100 - duty_cycle_percent) : duty_cycle_percent)
\* when the duty cycle is strictly between 0 and 100, else the nominal period
TimerPeriod(refresh, rest, duty) ==
    IF duty > 0 /\ duty < 100
    THEN (NominalPeriod(refresh) \div 100) * (IF rest THEN 100 - duty ELSE duty)
    ELSE NominalPeriod(refresh)

----------------------------------------------------------------------------
(* sscanf("%d") and sscanf("%lu") of the attribute writers *)

IsDigit(c) == c >= 48 /\ c <= 57

RECURSIVE SkipSpaces(_, _)
SkipSpaces(buf, i) ==
    IF i <= Len(buf) /\ (buf[i] = 32 \/ (buf[i] >= 9 /\ buf[i] <= 13))
    THEN SkipSpaces(buf, i + 1) ELSE i

RECURSIVE ScanNumber(_, _, _)
ScanNumber(buf, i, acc) ==
    IF i <= Len(buf) /\ IsDigit(buf[i])
    THEN ScanNumber(buf, i + 1, acc * 10 + (buf[i] - 48))
    ELSE acc

\* mutant: a text without a number converts to 0, as atoi does
sscanf_d_atoi(buf) ==
    LET i   == SkipSpaces(buf, 1)
        neg == i <= Len(buf) /\ buf[i] = 45
        j   == IF neg THEN i + 1 ELSE i
    IN  [n |-> 1, val |-> (IF neg THEN -1 ELSE 1) * ScanNumber(buf, j, 0)]

\* "%d": [n |-> conversions assigned, val |-> the value]
sscanf_d(buf) ==
    LET i   == SkipSpaces(buf, 1)
        neg == i <= Len(buf) /\ buf[i] = 45
        j   == IF neg THEN i + 1 ELSE i
    IN  IF j <= Len(buf) /\ IsDigit(buf[j])
        THEN [n |-> 1, val |-> (IF neg THEN -1 ELSE 1) * ScanNumber(buf, j, 0)]
        ELSE [n |-> 0, val |-> 0]

\* "%lu": no sign is accepted
sscanf_lu(buf) ==
    LET i == SkipSpaces(buf, 1)
    IN  IF i <= Len(buf) /\ IsDigit(buf[i])
        THEN [n |-> 1, val |-> ScanNumber(buf, i, 0)]
        ELSE [n |-> 0, val |-> 0]

----------------------------------------------------------------------------
(* digits_store: the parse of the text written to the digits attribute *)

\* mutant: the digits are left as kzalloc zeroed them
BlankDigitsZeroed == [d \in Digits |-> 0]

\* digits[digit] = ' ' for every digit
BlankDigits == [d \in Digits |-> 32]

NoDecimalPoints == [d \in Digits |-> FALSE]

\* the read loop: st = [out, digits, decimal_points], digit_in counts from 0
RECURSIVE StoreRead(_, _, _)
StoreRead(buf, digit_in, st) ==
    IF digit_in >= Len(buf) THEN st
    ELSE LET c == buf[digit_in + 1]
         IN  IF c < 32 \/ st.out >= NUM_DIGITS THEN st
             ELSE IF c = 46 /\ st.out > 0
             THEN StoreRead(buf, digit_in + 1,
                     [st EXCEPT !.decimal_points[st.out - 1] = TRUE])
             ELSE StoreRead(buf, digit_in + 1,
                     [st EXCEPT !.digits[st.out] = c, !.out = st.out + 1])

\* the shift loop: digit_out runs from NUM_DIGITS - 1 down to 0
RECURSIVE StoreShift(_, _, _)
StoreShift(digit_out, digit_in, st) ==
    IF digit_out < 0 THEN st
    ELSE IF digit_in >= 0
    THEN StoreShift(digit_out - 1, digit_in - 1,
            [st EXCEPT !.digits[digit_out] = st.digits[digit_in],
                       !.decimal_points[digit_out] = st.decimal_points[digit_in]])
    ELSE StoreShift(digit_out - 1, digit_in - 1,
            [st EXCEPT !.digits[digit_out] = 32,
                       !.decimal_points[digit_out] = FALSE])

DigitsStored(buf) ==
    LET read == StoreRead(buf, 0,
                    [out |-> 0, digits |-> BlankDigits,
                     decimal_points |-> NoDecimalPoints])
    IN  IF read.out < NUM_DIGITS
        THEN StoreShift(NUM_DIGITS - 1, read.out - 1, read)
        ELSE read

----------------------------------------------------------------------------
(* State *)

VARIABLES
    \* attributes of struct gpio_segled_device
    digits, decimal_points, refresh_rate_hz, brightness_percent,
    \* internal scan state
    resting, last_digit, active_digit, segments_out, duty_cycle_percent,
    seg_adjust,
    \* level of each GPIO line, indexed by enum gpio_segled_gpios
    gpios,
    \* the number of the advance step that computed segments_out, and of the
    \* one that computed the pattern last written to a segment line
    segments_tick, pins_tick,
    \* update_digits_work: queued instances, and each worker's execution of it
    work_pending, exec,
    \* digit_timer: armed, and its expiry
    timer_armed, expires,
    \* teardown: position of gpio_segled_device_release
    release_pc,
    \* the digits selected by the last NUM_DIGITS non-resting advance steps
    visited,
    \* the clock of SpecClock: when the last callback ran, the period it
    \* computed and the refresh rate it read, the expiries so far and the sum
    \* of their periods
    now, period, period_hz, nticks, period_sum,
    \* struct gpio_segled_driver and the locals of gpio_segled_probe
    drv,
    \* the last call of a store handler: the attribute, the text written and
    \* the value returned
    last_store,
    \* a call of digits_store in progress, one step per store to the Display:
    \* its position, its buf, its locals digit_in and digit_out, and the
    \* digits and decimal_points it found (tracked under SpecWrite)
    writer,
    \* the slot of the digit whose phases ended last: the time its select line
    \* was asserted (lit), the lengths of its active and rest phase with the
    \* refresh rate each was computed from, its duty cycle and segments
    slot,
    \* whether some expiry ran before the dispatch queued by the one before
    \* it had completed (tracked under SpecLive)
    overrun

attrs == <<digits, decimal_points, refresh_rate_hz, brightness_percent>>

scan == <<resting, active_digit, segments_out, duty_cycle_percent>>

work == <<work_pending, exec>>

clock == <<expires, now, period, period_hz, nticks, period_sum, slot,
           segments_tick, overrun>>

vars == <<drv, attrs, last_store, writer, scan, visited, last_digit, seg_adjust, gpios, pins_tick, work,
          timer_armed, release_pc, clock>>

NoStore == [attr |-> "none", buf |-> << >>, ret |-> 0]

\* the driver once gpio_segled_probe has set up its one Display and returned 0
Probed ==
    [pc |-> "done", children |-> 1, child |-> 1, gpio |-> SEGLED_GPIO_MAX,
     num_devices |-> 1, registered |-> {0}, timers |-> {0}, count |-> 1,
     failed |-> {}, ret |-> "0"]

\* idx is the index of the last store into digits or decimal_points
IdleWriter ==
    [pc |-> "idle", buf |-> << >>, digit_in |-> 0, digit_out |-> 0, idx |-> 0,
     digits |-> BlankDigits, decimal_points |-> NoDecimalPoints]

IdleWorker == [pc |-> "idle", segs |-> 0, gpio |-> 0, tick |-> 0]

NoSlot == [phases |-> 0, done |-> FALSE, lit |-> 0, active |-> 0, rest |-> 0,
           duty |-> 0, segs |-> 0, hz |-> 0, rest_hz |-> 0]

\* kzalloc, the defaults of gpio_segled_probe, gpiod_direction_output(.., 0),
\* hrtimer_start(.., ktime_get(), HRTIMER_MODE_ABS)
Init ==
    /\ digits = BlankDigits
    /\ decimal_points = NoDecimalPoints
    /\ refresh_rate_hz = DEFAULT_REFRESH_RATE_HZ
    /\ brightness_percent = DEFAULT_BRIGHTNESS_PERCENT
    /\ resting = FALSE
    /\ last_digit = 0
    /\ active_digit = 0
    /\ segments_out = 0
    /\ duty_cycle_percent = 0
    /\ seg_adjust \in BOOLEAN
    /\ gpios = [g \in 0 .. (SEGLED_GPIO_MAX - 1) |-> 0]
    /\ segments_tick = 0
    /\ pins_tick = 0
    /\ work_pending = 0
    /\ exec = [w \in Workers |-> IdleWorker]
    /\ timer_armed = TRUE
    /\ expires = StartTime
    /\ release_pc = "live"
    /\ visited = << >>
    /\ last_store = NoStore
    /\ writer = IdleWriter
    /\ drv = Probed
    /\ now = StartTime
    /\ period = 0
    /\ period_hz = DEFAULT_REFRESH_RATE_HZ
    /\ nticks = 0
    /\ period_sum = 0
    /\ slot = NoSlot
    /\ overrun = FALSE

----------------------------------------------------------------------------
(* The timer callback *)

\* the last NUM_DIGITS entries of the record of selected digits
LastVisited(v) ==
    IF Len(v) > NUM_DIGITS THEN Tail(v) ELSE v

\* mutant: the digit is advanced and encoded before the resting test
prepare_update_digits_advancing ==
    LET rest == NextResting(resting, duty_cycle_percent)
        ad   == NextDigit(active_digit)
        so   == SegmentsOut(digits[ad], decimal_points[ad])
    IN  /\ resting' = rest
        /\ active_digit' = ad
        /\ segments_out' = so
        /\ IF rest
           THEN UNCHANGED <<duty_cycle_percent, visited>>
           ELSE /\ duty_cycle_percent' = DutyCycle(so, brightness_percent, seg_adjust)
                /\ visited' = LastVisited(Append(visited, ad))

\* resting is toggled or cleared first; when it ends up set the function
\* returns, else it advances active_digit and computes segments_out and
\* duty_cycle_percent
prepare_update_digits ==
    LET rest == NextResting(resting, duty_cycle_percent)
        ad   == NextDigit(active_digit)
        so   == SegmentsOut(digits[ad], decimal_points[ad])
    IN  /\ resting' = rest
        /\ IF rest
           THEN UNCHANGED <<active_digit, segments_out, duty_cycle_percent,
                            visited>>
           ELSE /\ active_digit' = ad
                /\ segments_out' = so
                /\ duty_cycle_percent' = DutyCycle(so, brightness_percent, seg_adjust)
                /\ visited' = LastVisited(Append(visited, ad))

\* mutant: every call queues another instance
schedule_work_always(pending) ==
    pending + 1

\* schedule_work: queues the work item unless it is already pending
schedule_work(pending) ==
    IF pending = 0 THEN 1 ELSE pending

\* mutant: re-arms from the time the callback ran (hrtimer_forward_now)
NextExpiryFromNow(exp, fired, ns) ==
    fired + ns

\* hrtimer_add_expires_ns(&digit_timer, period): the new deadline is the
\* previous deadline exp plus ns; the time the callback fired at is not used
NextExpiry(exp, fired, ns) ==
    exp + ns

\* the callback with the clock left out: it may run whenever the timer is armed
gpio_segled_digit_timer_tick ==
    /\ timer_armed
    /\ prepare_update_digits
    /\ work_pending' = schedule_work(work_pending)
    /\ UNCHANGED <<drv, attrs, last_store, writer, last_digit, seg_adjust, gpios, pins_tick, exec, timer_armed,
                   release_pc, clock>>

\* the callback with its firings counted and the clock left out: it may run
\* whenever the timer is armed, also while the work item is pending or running
gpio_segled_digit_timer_fire ==
    /\ timer_armed
    /\ nticks < MaxTicks
    /\ prepare_update_digits
    /\ work_pending' = schedule_work(work_pending)
    /\ nticks' = nticks + 1
    /\ segments_tick' = IF resting' THEN segments_tick ELSE nticks + 1
    /\ UNCHANGED <<expires, now, period, period_hz, period_sum, slot,
                   overrun>>
    /\ UNCHANGED <<drv, attrs, last_store, writer, last_digit, seg_adjust, gpios,
                   pins_tick, exec, timer_armed, release_pc>>

\* the callback with the clock left out, recording whether it ran before the
\* work item queued by an earlier expiry had finished executing
gpio_segled_digit_timer_tick_live ==
    /\ timer_armed
    /\ prepare_update_digits
    /\ work_pending' = schedule_work(work_pending)
    /\ overrun' = (overrun \/ work_pending > 0
                     \/ \E w \in DOMAIN exec : exec[w].pc # "idle")
    /\ UNCHANGED <<expires, now, period, period_hz, nticks, period_sum, slot,
                   segments_tick>>
    /\ UNCHANGED <<drv, attrs, last_store, writer, last_digit, seg_adjust, gpios,
                   pins_tick, exec, timer_armed, release_pc>>

\* some digit-select line is asserted
DigitLit ==
    \E d \in Digits : gpios[SEGLED_GPIO_DIGIT_1 + d] = 1

\* the slot record once the phase that this expiry ends is accounted for
SlotAfterPhase(rest_next) ==
    LET on == IF DigitLit THEN period ELSE 0
    IN  IF nticks = 0 THEN slot
        ELSE IF ~resting
        THEN [phases |-> 1, done |-> ~rest_next, lit |-> on, active |-> period,
              rest |-> 0, duty |-> duty_cycle_percent, segs |-> segments_out,
              hz |-> period_hz, rest_hz |-> 0]
        ELSE [slot EXCEPT !.phases = 2, !.done = TRUE, !.lit = @ + on,
                          !.rest = period, !.rest_hz = period_hz]

\* the callback at its deadline, fired up to Jitter late, on the schedules
\* where the dispatch of the previous expiry has finished
gpio_segled_digit_timer_expiry ==
    /\ timer_armed
    /\ nticks < MaxTicks
    /\ work_pending = 0
    /\ \A w \in DOMAIN exec : exec[w].pc = "idle"
    /\ prepare_update_digits
    /\ work_pending' = schedule_work(work_pending)
    /\ \E late \in {0, Jitter} :
         LET p == TimerPeriod(refresh_rate_hz, resting', duty_cycle_percent')
         IN  /\ now' = expires + late
             /\ period' = p
             /\ period_hz' = refresh_rate_hz
             /\ expires' = NextExpiry(expires, now', p)
             /\ period_sum' = period_sum + p
    /\ nticks' = nticks + 1
    /\ segments_tick' = IF resting' THEN segments_tick ELSE nticks + 1
    /\ slot' = SlotAfterPhase(resting')
    /\ UNCHANGED <<drv, attrs, last_store, writer, last_digit, seg_adjust, gpios, pins_tick, exec, timer_armed,
                   release_pc, overrun>>

----------------------------------------------------------------------------
(* execute_update_digits on worker w, one step per shared access *)

\* mutant: the work item is re-entrant, a second worker may start it while
\* the first is still executing it
WorkerStartReentrant(w) ==
    /\ work_pending > 0
    /\ exec[w].pc = "idle"
    /\ work_pending' = work_pending - 1
    /\ exec' = [exec EXCEPT ![w].pc = "entry"]
    /\ UNCHANGED <<drv, attrs, last_store, writer, scan, visited, last_digit,
                   seg_adjust, gpios, pins_tick, timer_armed, release_pc,
                   clock>>

\* the worker takes the pending work item; the kernel runs a work item on one
\* worker at a time
WorkerStart(w) ==
    /\ work_pending > 0
    /\ \A v \in DOMAIN exec : exec[v].pc = "idle"
    /\ work_pending' = work_pending - 1
    /\ exec' = [exec EXCEPT ![w].pc = "entry"]
    /\ UNCHANGED <<drv, attrs, last_store, writer, scan, visited, last_digit, seg_adjust, gpios, pins_tick, timer_armed,
                   release_pc, clock>>

\* int segments_out = dev_impl->segments_out
ExecReadSegments(w) ==
    /\ exec[w].pc = "entry"
    /\ exec' = [exec EXCEPT ![w].pc = "off_last", ![w].segs = segments_out,
                            ![w].tick = segments_tick]
    /\ UNCHANGED <<drv, attrs, last_store, writer, scan, visited, last_digit, seg_adjust, gpios, pins_tick, work_pending,
                   timer_armed, release_pc, clock>>

\* gpiod_set_value_cansleep(gpios[SEGLED_GPIO_DIGIT_1 + last_digit], 0)
ExecLastDigitOff(w) ==
    /\ exec[w].pc = "off_last"
    /\ gpios' = [gpios EXCEPT ![SEGLED_GPIO_DIGIT_1 + last_digit] = 0]
    /\ UNCHANGED pins_tick
    /\ exec' = [exec EXCEPT ![w].pc = "check_rest"]
    /\ UNCHANGED <<drv, attrs, last_store, writer, scan, visited, last_digit, seg_adjust, work_pending,
                   timer_armed, release_pc, clock>>

\* if (dev_impl->resting) return
ExecCheckResting(w) ==
    /\ exec[w].pc = "check_rest"
    /\ exec' = [exec EXCEPT ![w] = IF resting THEN IdleWorker
                                   ELSE [@ EXCEPT !.pc = "segment",
                                                  !.gpio = SEGLED_GPIO_SEGMENT_A]]
    /\ UNCHANGED <<drv, attrs, last_store, writer, scan, visited, last_digit, seg_adjust, gpios, pins_tick, work_pending,
                   timer_armed, release_pc, clock>>

\* mutant: the loop shifts dev_impl->segments_out itself, not a local copy
ExecSegmentShared(w) ==
    /\ exec[w].pc = "segment"
    /\ gpios' = [gpios EXCEPT ![exec[w].gpio] = segments_out % 2]
    /\ pins_tick' = segments_tick
    /\ segments_out' = segments_out \div 2
    /\ exec' = [exec EXCEPT
                   ![w].gpio = @ + 1,
                   ![w].pc = IF exec[w].gpio + 1 <= SEGLED_GPIO_SEGMENT_P
                             THEN "segment" ELSE "on_active"]
    /\ UNCHANGED <<drv, attrs, last_store, writer, resting, active_digit,
                   duty_cycle_percent, visited, last_digit, seg_adjust,
                   work_pending, timer_armed, release_pc, clock>>

\* mutant: the segment lines are driven active-low
ExecSegmentActiveLow(w) ==
    /\ exec[w].pc = "segment"
    /\ gpios' = [gpios EXCEPT ![exec[w].gpio] = 1 - (exec[w].segs % 2)]
    /\ pins_tick' = exec[w].tick
    /\ exec' = [exec EXCEPT
                   ![w].segs = @ \div 2,
                   ![w].gpio = @ + 1,
                   ![w].pc = IF exec[w].gpio + 1 <= SEGLED_GPIO_SEGMENT_P
                             THEN "segment" ELSE "on_active"]
    /\ UNCHANGED <<drv, attrs, last_store, writer, scan, visited, last_digit,
                   seg_adjust, work_pending, timer_armed, release_pc, clock>>

\* gpiod_set_value_cansleep(gpios[gpio], segments_out & 1); segments_out >>= 1
ExecSegment(w) ==
    /\ exec[w].pc = "segment"
    /\ gpios' = [gpios EXCEPT ![exec[w].gpio] = exec[w].segs % 2]
    /\ pins_tick' = exec[w].tick
    /\ exec' = [exec EXCEPT
                   ![w].segs = @ \div 2,
                   ![w].gpio = @ + 1,
                   ![w].pc = IF exec[w].gpio + 1 <= SEGLED_GPIO_SEGMENT_P
                             THEN "segment" ELSE "on_active"]
    /\ UNCHANGED <<drv, attrs, last_store, writer, scan, visited, last_digit, seg_adjust, work_pending,
                   timer_armed, release_pc, clock>>

\* gpiod_set_value_cansleep(gpios[SEGLED_GPIO_DIGIT_1 + active_digit], 1)
ExecActiveDigitOn(w) ==
    /\ exec[w].pc = "on_active"
    /\ gpios' = [gpios EXCEPT ![SEGLED_GPIO_DIGIT_1 + active_digit] = 1]
    /\ UNCHANGED pins_tick
    /\ exec' = [exec EXCEPT ![w].pc = "set_last"]
    /\ UNCHANGED <<drv, attrs, last_store, writer, scan, visited, last_digit, seg_adjust, work_pending,
                   timer_armed, release_pc, clock>>

\* dev_impl->last_digit = dev_impl->active_digit
ExecSetLastDigit(w) ==
    /\ exec[w].pc = "set_last"
    /\ last_digit' = active_digit
    /\ exec' = [exec EXCEPT ![w] = IdleWorker]
    /\ UNCHANGED <<drv, attrs, last_store, writer, scan, visited, seg_adjust, gpios, pins_tick, work_pending, timer_armed,
                   release_pc, clock>>

execute_update_digits(w) ==
    \/ WorkerStart(w)
    \/ ExecReadSegments(w)
    \/ ExecLastDigitOff(w)
    \/ ExecCheckResting(w)
    \/ ExecSegment(w)
    \/ ExecActiveDigitOn(w)
    \/ ExecSetLastDigit(w)

----------------------------------------------------------------------------
(* The attribute writers (sysfs store handlers) *)

\* scnprintf("%c%s%c%s%c%s%c%s"): each digit, followed by "." when its decimal
\* point is set
RECURSIVE ShowFrom(_, _, _)
ShowFrom(d, dg, dp) ==
    IF d >= NUM_DIGITS THEN << >>
    ELSE <<dg[d]>> \o (IF dp[d] THEN <<46>> ELSE << >>) \o ShowFrom(d + 1, dg, dp)

\* the text a read of the digits attribute returns
digits_show ==
    ShowFrom(0, digits, decimal_points)

\* return len
StoreReturn(buf) ==
    Len(buf)

digits_store(buf) ==
    /\ release_pc = "live"
    /\ digits' = DigitsStored(buf).digits
    /\ decimal_points' = DigitsStored(buf).decimal_points
    /\ last_store' = [attr |-> "digits", buf |-> buf, ret |-> StoreReturn(buf)]
    /\ UNCHANGED writer
    /\ UNCHANGED <<drv, refresh_rate_hz, brightness_percent, scan, visited, last_digit,
                   seg_adjust, gpios, pins_tick, work, timer_armed, release_pc, clock>>

\* digits_store one store at a time, as the timer callback, which may
\* interrupt it anywhere, finds the Display
WriterFrame ==
    <<drv, refresh_rate_hz, brightness_percent, scan, visited, last_digit,
      seg_adjust, gpios, pins_tick, work, timer_armed, release_pc, clock>>

\* entry of digits_store(buf)
DigitsStoreEnter(buf) ==
    /\ release_pc = "live"
    /\ writer.pc = "idle"
    /\ writer' = [pc |-> "blank_digit", buf |-> buf, digit_in |-> 0,
                  digit_out |-> 0, idx |-> 0, digits |-> digits,
                  decimal_points |-> decimal_points]
    /\ UNCHANGED <<digits, decimal_points, last_store>>
    /\ UNCHANGED WriterFrame

\* dev_impl->digits[digit_out] = ' '
DigitsStoreBlankDigit ==
    /\ writer.pc = "blank_digit"
    /\ digits' = [digits EXCEPT ![writer.digit_out] = 32]
    /\ writer' = [writer EXCEPT !.pc = "blank_point", !.idx = writer.digit_out]
    /\ UNCHANGED <<decimal_points, last_store>>
    /\ UNCHANGED WriterFrame

\* dev_impl->decimal_points[digit_out] = 0; ++digit_out; after the loop
\* digit_out = 0, digit_in = 0
DigitsStoreBlankPoint ==
    /\ writer.pc = "blank_point"
    /\ decimal_points' = [decimal_points EXCEPT ![writer.digit_out] = FALSE]
    /\ writer' = IF writer.digit_out + 1 < NUM_DIGITS
                  THEN [writer EXCEPT !.pc = "blank_digit", !.digit_out = @ + 1,
                                      !.idx = writer.digit_out]
                  ELSE [writer EXCEPT !.pc = "read", !.digit_out = 0,
                                      !.digit_in = 0, !.idx = writer.digit_out]
    /\ UNCHANGED <<digits, last_store>>
    /\ UNCHANGED WriterFrame

\* mutant: the read loop does not stop when the digits are full
DigitsStoreReadUnbounded ==
    /\ writer.pc = "read"
    /\ LET i == writer.digit_in
           o == writer.digit_out
       IN  IF i >= Len(writer.buf) \/ writer.buf[i + 1] < 32
           THEN /\ writer' = IF o < NUM_DIGITS
                              THEN [writer EXCEPT !.pc = "shift_digit",
                                                  !.digit_in = o - 1,
                                                  !.digit_out = NUM_DIGITS - 1]
                              ELSE [writer EXCEPT !.pc = "return"]
                /\ UNCHANGED <<digits, decimal_points>>
           ELSE IF writer.buf[i + 1] = 46 /\ o > 0
           THEN /\ decimal_points' = [decimal_points EXCEPT ![o - 1] = TRUE]
                /\ writer' = [writer EXCEPT !.digit_in = i + 1, !.idx = o - 1]
                /\ UNCHANGED digits
           ELSE /\ digits' = [digits EXCEPT ![o] = writer.buf[i + 1]]
                /\ writer' = [writer EXCEPT !.digit_in = i + 1,
                                            !.digit_out = o + 1, !.idx = o]
                /\ UNCHANGED decimal_points
    /\ UNCHANGED last_store
    /\ UNCHANGED WriterFrame

\* one iteration of the read loop; at its end the test digit_out < NUM_DIGITS
\* and the initialisation of the shift loop
DigitsStoreRead ==
    /\ writer.pc = "read"
    /\ LET i == writer.digit_in
           o == writer.digit_out
       IN  IF i >= Len(writer.buf) \/ writer.buf[i + 1] < 32 \/ o >= NUM_DIGITS
           THEN /\ writer' = IF o < NUM_DIGITS
                              THEN [writer EXCEPT !.pc = "shift_digit",
                                                  !.digit_in = o - 1,
                                                  !.digit_out = NUM_DIGITS - 1]
                              ELSE [writer EXCEPT !.pc = "return"]
                /\ UNCHANGED <<digits, decimal_points>>
           ELSE IF writer.buf[i + 1] = 46 /\ o > 0
           THEN /\ decimal_points' = [decimal_points EXCEPT ![o - 1] = TRUE]
                /\ writer' = [writer EXCEPT !.digit_in = i + 1, !.idx = o - 1]
                /\ UNCHANGED digits
           ELSE /\ digits' = [digits EXCEPT ![o] = writer.buf[i + 1]]
                /\ writer' = [writer EXCEPT !.digit_in = i + 1,
                                            !.digit_out = o + 1, !.idx = o]
                /\ UNCHANGED decimal_points
    /\ UNCHANGED last_store
    /\ UNCHANGED WriterFrame

\* digits[digit_out] = digits[digit_in], or ' ' when digit_in < 0
DigitsStoreShiftDigit ==
    /\ writer.pc = "shift_digit"
    /\ digits' = [digits EXCEPT ![writer.digit_out] =
                     IF writer.digit_in >= 0 THEN digits[writer.digit_in]
                     ELSE 32]
    /\ writer' = [writer EXCEPT !.pc = "shift_point", !.idx = writer.digit_out]
    /\ UNCHANGED <<decimal_points, last_store>>
    /\ UNCHANGED WriterFrame

\* decimal_points[digit_out] = decimal_points[digit_in], or 0;
\* --digit_out, --digit_in
DigitsStoreShiftPoint ==
    /\ writer.pc = "shift_point"
    /\ decimal_points' = [decimal_points EXCEPT ![writer.digit_out] =
                             IF writer.digit_in >= 0
                             THEN decimal_points[writer.digit_in]
                             ELSE FALSE]
    /\ writer' = IF writer.digit_out - 1 >= 0
                  THEN [writer EXCEPT !.pc = "shift_digit",
                                      !.idx = writer.digit_out,
                                      !.digit_out = @ - 1, !.digit_in = @ - 1]
                  ELSE [writer EXCEPT !.pc = "return", !.idx = writer.digit_out]
    /\ UNCHANGED <<digits, last_store>>
    /\ UNCHANGED WriterFrame

\* return len
DigitsStoreReturn ==
    /\ writer.pc = "return"
    /\ last_store' = [attr |-> "digits", buf |-> writer.buf,
                      ret |-> StoreReturn(writer.buf)]
    /\ writer' = IdleWriter
    /\ UNCHANGED <<digits, decimal_points>>
    /\ UNCHANGED WriterFrame

digits_store_step ==
    \/ \E buf \in WriteInputs : DigitsStoreEnter(buf)
    \/ DigitsStoreBlankDigit
    \/ DigitsStoreBlankPoint
    \/ DigitsStoreRead
    \/ DigitsStoreShiftDigit
    \/ DigitsStoreShiftPoint
    \/ DigitsStoreReturn

refresh_store(buf) ==
    /\ release_pc = "live"
    /\ refresh_rate_hz' = IF sscanf_lu(buf).n = 1 THEN sscanf_lu(buf).val
                          ELSE refresh_rate_hz
    /\ last_store' = [attr |-> "refresh", buf |-> buf, ret |-> StoreReturn(buf)]
    /\ UNCHANGED writer
    /\ UNCHANGED <<drv, digits, decimal_points, brightness_percent, scan, visited,
                   last_digit, seg_adjust, gpios, pins_tick, work, timer_armed,
                   release_pc, clock>>

\* mutant: the write recomputes the duty cycle at once
brightness_store_applied(buf) ==
    /\ release_pc = "live"
    /\ brightness_percent' = IF sscanf_d(buf).n = 1 THEN sscanf_d(buf).val
                             ELSE brightness_percent
    /\ duty_cycle_percent' = DutyCycle(segments_out, brightness_percent', seg_adjust)
    /\ last_store' = [attr |-> "brightness", buf |-> buf, ret |-> StoreReturn(buf)]
    /\ UNCHANGED writer
    /\ UNCHANGED <<drv, digits, decimal_points, refresh_rate_hz, resting, active_digit,
                   segments_out, visited, last_digit, seg_adjust, gpios, pins_tick, work,
                   timer_armed, release_pc, clock>>

brightness_store(buf) ==
    /\ release_pc = "live"
    /\ brightness_percent' = IF sscanf_d(buf).n = 1 THEN sscanf_d(buf).val
                             ELSE brightness_percent
    /\ last_store' = [attr |-> "brightness", buf |-> buf, ret |-> StoreReturn(buf)]
    /\ UNCHANGED writer
    /\ UNCHANGED <<drv, digits, decimal_points, refresh_rate_hz, scan, visited,
                   last_digit,
                   seg_adjust, gpios, pins_tick, work, timer_armed, release_pc, clock>>

----------------------------------------------------------------------------
(* Teardown: gpio_segled_device_release *)

\* hrtimer_cancel(&digit_timer): the callback is atomic here, so none is running
hrtimer_cancel ==
    /\ release_pc = "live"
    /\ timer_armed' = FALSE
    /\ release_pc' = "timer_cancelled"
    /\ UNCHANGED <<drv, attrs, last_store, writer, scan, visited, last_digit, seg_adjust, gpios, pins_tick, work, clock>>

\* cancel_work_sync, first half: take the work item off the queue
cancel_work_pending ==
    /\ release_pc = "timer_cancelled"
    /\ work_pending' = 0
    /\ release_pc' = "work_cancelled"
    /\ UNCHANGED <<drv, attrs, last_store, writer, scan, visited, last_digit, seg_adjust, gpios, pins_tick, exec,
                   timer_armed, clock>>

\* mutant: cancel_work, which does not wait for a running execution
WorkNotAwaited ==
    TRUE

\* what cancel_work_sync waits for before it returns
WorkFlushed ==
    \A w \in DOMAIN exec : exec[w].pc = "idle"

\* cancel_work_sync, second half, then kfree(dev_impl): the teardown returns
cancel_work_flush ==
    /\ release_pc = "work_cancelled"
    /\ WorkFlushed
    /\ release_pc' = "released"
    /\ UNCHANGED <<drv, attrs, last_store, writer, scan, visited, last_digit, seg_adjust, gpios, pins_tick, work,
                   timer_armed, clock>>

gpio_segled_device_release ==
    \/ hrtimer_cancel
    \/ cancel_work_pending
    \/ cancel_work_flush

----------------------------------------------------------------------------
(* gpio_segled_probe: the setup of the Displays the device tree lists.  A   *)
(* Display is reduced to being registered and to its timer being started;  *)
(* drv.failed records the children for which a pin could not be acquired   *)
(* or configured.  Every call that can fail does so or not.                *)

\* everything of the Display modelled above
device == <<attrs, last_store, writer, scan, visited, last_digit, seg_adjust, gpios, pins_tick,
            work, timer_armed, release_pc, clock>>

\* count = device_get_child_node_count(); if (!count) return -ENODEV;
\* drv = devm_kzalloc(); if (!drv) return -ENOMEM
ProbeStart ==
    /\ drv.pc = "start"
    /\ \E ok \in BOOLEAN :
         drv' = IF drv.children = 0
                THEN [drv EXCEPT !.pc = "failed", !.ret = "-ENODEV"]
                ELSE IF ~ok
                THEN [drv EXCEPT !.pc = "failed", !.ret = "-ENOMEM"]
                ELSE [drv EXCEPT !.pc = "alloc"]
    /\ UNCHANGED device

\* cdev = kzalloc(); if (!cdev) goto unwind; device_initialize, the defaults
ProbeAllocDevice ==
    /\ drv.pc = "alloc"
    /\ \E ok \in BOOLEAN :
         drv' = IF ok
                THEN [drv EXCEPT !.pc = "get_gpio", !.gpio = 0]
                ELSE [drv EXCEPT !.pc = "unwind", !.ret = "-ENOMEM",
                                 !.count = drv.num_devices - 1]
    /\ UNCHANGED device

\* gpios[gpio] = devm_get_gpiod_from_child(); if (IS_ERR) goto unwind_dev_partial
ProbeGetGpio ==
    /\ drv.pc = "get_gpio"
    /\ \E ok \in BOOLEAN :
         drv' = IF ok
                THEN [drv EXCEPT !.pc = "set_direction"]
                ELSE [drv EXCEPT !.pc = "unwind_dev_partial", !.ret = "PTR_ERR",
                                 !.failed = @ \cup {drv.child}]
    /\ UNCHANGED device

\* ret = gpiod_direction_output(gpios[gpio], 0); if (ret) goto unwind_dev_partial
ProbeSetDirection ==
    /\ drv.pc = "set_direction"
    /\ \E ok \in BOOLEAN :
         drv' = IF ok
                THEN [drv EXCEPT !.gpio = @ + 1,
                                 !.pc = IF drv.gpio + 1 < SEGLED_GPIO_MAX
                                        THEN "get_gpio" ELSE "set_name"]
                ELSE [drv EXCEPT !.pc = "unwind_dev_partial", !.ret = "error",
                                 !.failed = @ \cup {drv.child}]
    /\ UNCHANGED device

\* INIT_WORK; ret = dev_set_name(); if (ret) goto unwind_dev_partial
ProbeSetName ==
    /\ drv.pc = "set_name"
    /\ \E ok \in BOOLEAN :
         drv' = IF ok
                THEN [drv EXCEPT !.pc = "device_add"]
                ELSE [drv EXCEPT !.pc = "unwind_dev_partial", !.ret = "error"]
    /\ UNCHANGED device

\* ret = device_add(); if (ret) goto unwind; devices[num_devices++] = cdev
ProbeDeviceAdd ==
    /\ drv.pc = "device_add"
    /\ \E ok \in BOOLEAN :
         drv' = IF ok
                THEN [drv EXCEPT !.pc = "timer_start",
                                 !.registered = @ \cup {drv.child},
                                 !.num_devices = @ + 1]
                ELSE [drv EXCEPT !.pc = "unwind", !.ret = "error",
                                 !.count = drv.num_devices - 1]
    /\ UNCHANGED device

\* hrtimer_init; hrtimer_start(.., ktime_get(), HRTIMER_MODE_ABS); the next
\* child, or return 0
ProbeTimerStart ==
    /\ drv.pc = "timer_start"
    /\ drv' = [drv EXCEPT !.timers = @ \cup {drv.child},
                          !.child = @ + 1,
                          !.pc = IF drv.child + 1 < drv.children
                                 THEN "alloc" ELSE "done",
                          !.ret = IF drv.child + 1 < drv.children
                                  THEN @ ELSE "0"]
    /\ UNCHANGED device

\* unwind_dev_partial: kfree(cdev)
ProbeFreePartial ==
    /\ drv.pc = "unwind_dev_partial"
    /\ drv' = [drv EXCEPT !.pc = "unwind", !.count = drv.num_devices - 1]
    /\ UNCHANGED device

\* mutant: returns the error without unregistering the Displays set up before
ProbeUnwindNothing ==
    /\ drv.pc = "unwind"
    /\ drv' = [drv EXCEPT !.pc = "failed"]
    /\ UNCHANGED device

\* unwind: for (count = num_devices - 1; count >= 0; --count)
\* device_unregister(&devices[count]->dev), whose release cancels the timer;
\* return ret.  devices[count] is child count: children register in order.
ProbeUnwind ==
    /\ drv.pc = "unwind"
    /\ drv' = IF drv.count >= 0
              THEN [drv EXCEPT !.registered = @ \ {drv.count},
                               !.timers = @ \ {drv.count},
                               !.count = @ - 1]
              ELSE [drv EXCEPT !.pc = "failed"]
    /\ UNCHANGED device

gpio_segled_probe ==
    \/ ProbeStart
    \/ ProbeAllocDevice
    \/ ProbeGetGpio
    \/ ProbeSetDirection
    \/ ProbeSetName
    \/ ProbeDeviceAdd
    \/ ProbeTimerStart
    \/ ProbeFreePartial
    \/ ProbeUnwind

----------------------------------------------------------------------------
(* Specifications *)

Next ==
    \/ gpio_segled_digit_timer_tick
    \/ \E w \in Workers : execute_update_digits(w)
    \/ \E buf \in DigitsInputs : digits_store(buf)
    \/ \E buf \in BrightnessInputs : brightness_store(buf)
    \/ gpio_segled_device_release

Spec == Init /\ [][Next]_vars

NextClock ==
    \/ gpio_segled_digit_timer_expiry
    \/ \E w \in Workers : execute_update_digits(w)
    \/ \E buf \in DigitsInputs : digits_store(buf)
    \/ \E buf \in RefreshInputs : refresh_store(buf)
    \/ \E buf \in ClockBrightnessInputs : brightness_store(buf)
    \/ gpio_segled_device_release

SpecClock == Init /\ [][NextClock]_vars

\* a Display showing one character on every digit, at any brightness
InitScan ==
    /\ \E c \in ScanChars : digits = [d \in Digits |-> c]
    /\ \E p \in BOOLEAN : decimal_points = [d \in Digits |-> p]
    /\ refresh_rate_hz = DEFAULT_REFRESH_RATE_HZ
    /\ brightness_percent \in ScanBrightness
    /\ resting = FALSE
    /\ last_digit = 0
    /\ active_digit = 0
    /\ segments_out = 0
    /\ duty_cycle_percent = 0
    /\ seg_adjust \in BOOLEAN
    /\ gpios = [g \in 0 .. (SEGLED_GPIO_MAX - 1) |-> 0]
    /\ segments_tick = 0
    /\ pins_tick = 0
    /\ work_pending = 0
    /\ exec = [w \in Workers |-> IdleWorker]
    /\ timer_armed = TRUE
    /\ expires = StartTime
    /\ release_pc = "live"
    /\ visited = << >>
    /\ last_store = NoStore
    /\ writer = IdleWriter
    /\ drv = Probed
    /\ now = StartTime
    /\ period = 0
    /\ period_hz = DEFAULT_REFRESH_RATE_HZ
    /\ nticks = 0
    /\ period_sum = 0
    /\ slot = NoSlot
    /\ overrun = FALSE

NextDigits ==
    \/ gpio_segled_digit_timer_tick
    \/ \E buf \in StoreDigitsInputs : digits_store(buf)

SpecDigits == Init /\ [][NextDigits]_vars

NextNumbers ==
    \/ gpio_segled_digit_timer_tick
    \/ \E buf \in StoreRefreshInputs : refresh_store(buf)
    \/ \E buf \in StoreBrightnessInputs : brightness_store(buf)

SpecNumbers == Init /\ [][NextNumbers]_vars

\* the driver at the entry of gpio_segled_probe, no Display set up yet
InitProbe ==
    /\ \E n \in 0 .. MaxChildren :
         drv = [pc |-> "start", children |-> n, child |-> 0, gpio |-> 0,
                num_devices |-> 0, registered |-> {}, timers |-> {},
                count |-> 0, failed |-> {}, ret |-> "0"]
    /\ digits = BlankDigits
    /\ decimal_points = NoDecimalPoints
    /\ refresh_rate_hz = DEFAULT_REFRESH_RATE_HZ
    /\ brightness_percent = DEFAULT_BRIGHTNESS_PERCENT
    /\ resting = FALSE
    /\ last_digit = 0
    /\ active_digit = 0
    /\ segments_out = 0
    /\ duty_cycle_percent = 0
    /\ seg_adjust = FALSE
    /\ gpios = [g \in 0 .. (SEGLED_GPIO_MAX - 1) |-> 0]
    /\ segments_tick = 0
    /\ pins_tick = 0
    /\ work_pending = 0
    /\ exec = [w \in Workers |-> IdleWorker]
    /\ timer_armed = FALSE
    /\ expires = StartTime
    /\ release_pc = "live"
    /\ visited = << >>
    /\ last_store = NoStore
    /\ writer = IdleWriter
    /\ now = StartTime
    /\ period = 0
    /\ period_hz = DEFAULT_REFRESH_RATE_HZ
    /\ nticks = 0
    /\ period_sum = 0
    /\ slot = NoSlot
    /\ overrun = FALSE

NextProbe ==
    gpio_segled_probe

SpecProbe == InitProbe /\ [][NextProbe]_vars

\* a Display with seg-adjust on showing a '1' followed by a '4', at any
\* brightness the attribute can hold
InitAdjust ==
    /\ digits = [d \in Digits |-> AdjustDigits[d + 1]]
    /\ decimal_points = NoDecimalPoints
    /\ refresh_rate_hz \in AdjustRefresh
    /\ brightness_percent \in AdjustBrightness
    /\ resting = FALSE
    /\ last_digit = 0
    /\ active_digit = 0
    /\ segments_out = 0
    /\ duty_cycle_percent = 0
    /\ seg_adjust = TRUE
    /\ gpios = [g \in 0 .. (SEGLED_GPIO_MAX - 1) |-> 0]
    /\ segments_tick = 0
    /\ pins_tick = 0
    /\ work_pending = 0
    /\ exec = [w \in Workers |-> IdleWorker]
    /\ timer_armed = TRUE
    /\ expires = StartTime
    /\ release_pc = "live"
    /\ visited = << >>
    /\ last_store = NoStore
    /\ writer = IdleWriter
    /\ drv = Probed
    /\ now = StartTime
    /\ period = 0
    /\ period_hz = refresh_rate_hz
    /\ nticks = 0
    /\ period_sum = 0
    /\ slot = NoSlot
    /\ overrun = FALSE

NextAdjust ==
    \/ gpio_segled_digit_timer_expiry
    \/ \E w \in Workers : execute_update_digits(w)

SpecAdjust == InitAdjust /\ [][NextAdjust]_vars

\* the Display after gpio_segled_probe, its work item served by the pool
InitOrder ==
    /\ digits = BlankDigits
    /\ decimal_points = NoDecimalPoints
    /\ refresh_rate_hz = DEFAULT_REFRESH_RATE_HZ
    /\ brightness_percent = DEFAULT_BRIGHTNESS_PERCENT
    /\ resting = FALSE
    /\ last_digit = 0
    /\ active_digit = 0
    /\ segments_out = 0
    /\ duty_cycle_percent = 0
    /\ seg_adjust \in BOOLEAN
    /\ gpios = [g \in 0 .. (SEGLED_GPIO_MAX - 1) |-> 0]
    /\ segments_tick = 0
    /\ pins_tick = 0
    /\ work_pending = 0
    /\ exec = [w \in Pool |-> IdleWorker]
    /\ timer_armed = TRUE
    /\ expires = StartTime
    /\ release_pc = "live"
    /\ visited = << >>
    /\ last_store = NoStore
    /\ writer = IdleWriter
    /\ drv = Probed
    /\ now = StartTime
    /\ period = 0
    /\ period_hz = DEFAULT_REFRESH_RATE_HZ
    /\ nticks = 0
    /\ period_sum = 0
    /\ slot = NoSlot
    /\ overrun = FALSE

NextOrder ==
    \/ gpio_segled_digit_timer_fire
    \/ \E w \in Pool : execute_update_digits(w)
    \/ \E buf \in DigitsInputs : digits_store(buf)
    \/ \E buf \in BrightnessInputs : brightness_store(buf)

SpecOrder == InitOrder /\ [][NextOrder]_vars

\* a Display whose content and brightness were written before the scan is
\* observed and stay as they are
InitShow ==
    /\ \E c \in ShowContents :
         /\ digits = [d \in Digits |-> c.digits[d + 1]]
         /\ decimal_points = [d \in Digits |-> c.decimal_points[d + 1]]
    /\ refresh_rate_hz = DEFAULT_REFRESH_RATE_HZ
    /\ brightness_percent \in ShowBrightness
    /\ resting = FALSE
    /\ last_digit = 0
    /\ active_digit = 0
    /\ segments_out = 0
    /\ duty_cycle_percent = 0
    /\ seg_adjust \in BOOLEAN
    /\ gpios = [g \in 0 .. (SEGLED_GPIO_MAX - 1) |-> 0]
    /\ segments_tick = 0
    /\ pins_tick = 0
    /\ work_pending = 0
    /\ exec = [w \in Workers |-> IdleWorker]
    /\ timer_armed = TRUE
    /\ expires = StartTime
    /\ release_pc = "live"
    /\ visited = << >>
    /\ last_store = NoStore
    /\ writer = IdleWriter
    /\ drv = Probed
    /\ now = StartTime
    /\ period = 0
    /\ period_hz = DEFAULT_REFRESH_RATE_HZ
    /\ nticks = 0
    /\ period_sum = 0
    /\ slot = NoSlot
    /\ overrun = FALSE

NextShow ==
    \/ gpio_segled_digit_timer_expiry
    \/ \E w \in Workers : execute_update_digits(w)

SpecShow == InitShow /\ [][NextShow]_vars

\* the Displays of SpecShow with seg-adjust off
InitLive ==
    InitShow /\ ~seg_adjust

NextLive ==
    \/ gpio_segled_digit_timer_tick_live
    \/ \E w \in Workers : execute_update_digits(w)

\* the hrtimer keeps expiring while it is armed and the workqueue keeps
\* running a queued work item
SpecLive ==
    /\ InitLive
    /\ [][NextLive]_vars
    /\ WF_vars(gpio_segled_digit_timer_tick_live)
    /\ WF_vars(\E w \in Workers : execute_update_digits(w))

NextWrite ==
    \/ gpio_segled_digit_timer_tick
    \/ digits_store_step

SpecWrite == Init /\ [][NextWrite]_vars

NextEcho ==
    \/ gpio_segled_digit_timer_tick
    \/ \E buf \in EchoInputs : digits_store(buf)
    \/ \E buf \in {digits_show} : digits_store(buf)

SpecEcho == Init /\ [][NextEcho]_vars

\* a Display with seg-adjust set
InitIndex ==
    Init /\ seg_adjust

NextIndex ==
    \/ gpio_segled_digit_timer_fire
    \/ \E w \in Workers : execute_update_digits(w)
    \/ \E buf \in IndexInputs : DigitsStoreEnter(buf)
    \/ DigitsStoreBlankDigit
    \/ DigitsStoreBlankPoint
    \/ DigitsStoreRead
    \/ DigitsStoreShiftDigit
    \/ DigitsStoreShiftPoint
    \/ DigitsStoreReturn

SpecIndex == InitIndex /\ [][NextIndex]_vars

NextRate ==
    \/ gpio_segled_digit_timer_expiry
    \/ \E w \in Workers : execute_update_digits(w)
    \/ \E buf \in RateInputs : refresh_store(buf)

SpecRate == Init /\ [][NextRate]_vars

NextScan ==
    gpio_segled_digit_timer_tick

SpecScan == InitScan /\ [][NextScan]_vars

----------------------------------------------------------------------------
(* Properties *)

SelectAsserted == {d \in Digits : gpios[SEGLED_GPIO_DIGIT_1 + d] = 1}

Running == {w \in DOMAIN exec : exec[w].pc # "idle"}

\* a step of the timer callback: the only writer of resting and active_digit,
\* and it changes one of them every time
TimerTickStep == resting' # resting \/ active_digit' # active_digit

\* C1: at most one digit-select line is asserted at any instant, under every
\* interleaving of timer ticks with the pin writes of the dispatcher.
C1_AtMostOneDigitAsserted ==
    Cardinality(SelectAsserted) <= 1

\* C2: teardown cancels the timer, then the work item, and returns only when
\* no dispatch is running; once it has returned the timer is not armed, no
\* dispatch is pending or running, and no pin or scan-state write occurs.
C2_TeardownQuiesces ==
    /\ [](release_pc \in {"work_cancelled", "released"} => ~timer_armed)
    /\ [](release_pc = "released" => work_pending = 0 /\ Running = {})
    /\ [][release_pc = "released" =>
            UNCHANGED <<gpios, scan, last_digit, work, timer_armed>>]_vars

\* C2 witness: teardown has returned after the engine had lit a digit.
C2_Witness ==
    release_pc = "released" /\ SelectAsserted # {} /\ Len(visited) = NUM_DIGITS

VisitedSet == {visited[i] : i \in 1 .. Len(visited)}

\* C4: an advance step that does not rest moves active_digit to
\* (active_digit + 1) mod NUM_DIGITS, one that rests leaves it alone, and any
\* NUM_DIGITS consecutive non-resting advances select every digit once.
C4_DigitsCycle ==
    /\ [](active_digit \in Digits)
    /\ [](Len(visited) = NUM_DIGITS => VisitedSet = Digits)
    /\ [][active_digit' = IF resting' THEN active_digit
                          ELSE (active_digit + 1) % NUM_DIGITS]_vars

\* C4 witness: the cursor has wrapped to digit 0 after a full cycle, and the
\* engine is resting there.
C4_Witness ==
    visited = <<1, 2, 3, 0>> /\ active_digit = 0 /\ resting

\* C5: a tick flips resting exactly when the duty cycle left by the previous
\* tick is strictly between 0 and 100 and clears it otherwise; so resting
\* holds only at such a duty cycle, where the phases alternate.
C5_RestingAlternates ==
    /\ [](resting => duty_cycle_percent > 0 /\ duty_cycle_percent < 100)
    /\ [][TimerTickStep =>
            resting' = IF duty_cycle_percent > 0 /\ duty_cycle_percent < 100
                       THEN ~resting ELSE FALSE]_vars

\* C5 witness: a rest phase at a duty cycle that differs from the one the
\* digit before it was shown at.
C5_Witness ==
    /\ resting
    /\ Len(visited) = 3
    /\ seg_adjust
    /\ brightness_percent = 50
    /\ duty_cycle_percent = 43

\* C9: with seg-adjust off, after any non-resting advance the duty cycle is
\* brightness_percent, whatever the segment mask.
C9_DutyIsBrightness ==
    (~seg_adjust /\ visited # << >>) => duty_cycle_percent = brightness_percent

\* C9 witness: seg-adjust off, a mask of the decimal point alone, brightness 37.
C9_Witness ==
    /\ ~seg_adjust
    /\ segments_out = 128
    /\ visited # << >>
    /\ brightness_percent = 37
    /\ duty_cycle_percent = 37

\* the bits set in an 8-bit segment mask (segments A..G and P)
LitBits(segs) ==
    Cardinality({b \in SEGLED_GPIO_SEGMENT_A .. SEGLED_GPIO_SEGMENT_P :
                    (segs \div (2 ^ b)) % 2 = 1})

\* C10: with seg-adjust on, the duty cycle is floor(brightness_percent * n / 8)
\* for a mask with n lit segments: 0 for a blank mask and, at brightness 50,
\* 12 for '1' and 43 for '8'.
C10_DutyIsScaledBySegments ==
    seg_adjust =>
        /\ duty_cycle_percent
              = (brightness_percent * LitBits(segments_out)) \div 8
        /\ (segments_out = 0) => duty_cycle_percent = 0
        /\ (brightness_percent = 50 /\ segments_out = 6)
              => duty_cycle_percent = 12
        /\ (brightness_percent = 50 /\ segments_out = 127)
              => duty_cycle_percent = 43

\* C10 witness: seg-adjust on, brightness 50, an '8' without decimal point.
C10_Witness ==
    /\ seg_adjust
    /\ brightness_percent = 50
    /\ digits[active_digit] = 56
    /\ segments_out = 127
    /\ duty_cycle_percent = 43

\* the last accounted slot is complete and both its phases were scheduled at
\* the same refresh rate
SlotSettled ==
    slot.done /\ (slot.phases = 2 => slot.hz = slot.rest_hz)

\* C6: for every duty cycle d in 0..100 the time a digit showing some segment
\* is lit in its slot is d/100 of the slot's scheduled time (active phase plus
\* rest phase): none of it at d = 0, all of it at d = 100.
C6_LitShareIsDutyCycle ==
    (SlotSettled /\ slot.segs # 0 /\ slot.duty \in 0 .. 100)
        => slot.lit * 100 = slot.duty * (slot.active + slot.rest)

\* C7 as stated: at a duty cycle strictly between 0 and 100 the active period
\* and the rest period that follows it add up to the nominal period
\* NSEC_PER_SEC / (NUM_DIGITS * refresh_rate_hz).
C7_PhasesSumToNominal ==
    (SlotSettled /\ slot.phases = 2 /\ slot.hz >= 1
        /\ slot.duty > 0 /\ slot.duty < 100)
        => slot.active + slot.rest = NominalPeriod(slot.hz)

\* C7 amended: the two periods add up to the nominal period rounded down to a
\* multiple of 100 ns, split as duty : (100 - duty); the sum is the nominal
\* period itself only when that is a multiple of 100 ns.
C7_PhasesSumToRoundedNominal ==
    (SlotSettled /\ slot.phases = 2 /\ slot.hz >= 1
        /\ slot.duty > 0 /\ slot.duty < 100)
        => /\ slot.active + slot.rest = (NominalPeriod(slot.hz) \div 100) * 100
           /\ slot.active * (100 - slot.duty) = slot.rest * slot.duty
           /\ (NominalPeriod(slot.hz) % 100 = 0
                 => slot.active + slot.rest = NominalPeriod(slot.hz))

\* C7 witness: a digit shown and rested at 30 Hz and duty cycle 50, where the
\* nominal period 8333333 ns is no multiple of 100 ns.
C7_Witness ==
    /\ SlotSettled
    /\ slot.phases = 2
    /\ slot.hz = 30
    /\ slot.duty = 50
    /\ slot.active + slot.rest = 8333300

\* C8: every expiry moves the deadline by the computed period from the
\* previous deadline, whatever the delay the callback ran with, so the
\* deadline is always the start time plus the sum of the periods computed so
\* far, and the timer stays armed after every expiry.
C8_RearmsFromDeadline ==
    /\ [](expires = StartTime + period_sum)
    /\ [][nticks' # nticks =>
            /\ timer_armed'
            /\ now' >= expires
            /\ expires' = expires + period']_vars

\* C8 witness: the third expiry ran Jitter late, after a deadline that a
\* rest phase had shortened, and the timer is armed for the next one.
C8_Witness ==
    /\ nticks = 3
    /\ timer_armed
    /\ now = (expires - period) + Jitter
    /\ period_sum < 3 * NominalPeriod(period_hz)

\* the bits set among the seven segments A..G of a mask
LitBitsAtoG(segs) ==
    Cardinality({b \in SEGLED_GPIO_SEGMENT_A .. (SEGLED_GPIO_SEGMENT_P - 1) :
                    (segs \div (2 ^ b)) % 2 = 1})

\* C11 as stated: with seg-adjust on the duty cycle is computed from the lit
\* segments among A..G only, so it does not depend on the decimal point.
C11_DutyIgnoresDecimalPoint ==
    (seg_adjust /\ visited # << >>) =>
        duty_cycle_percent
          = (brightness_percent * LitBitsAtoG(segments_out)) \div 8

\* C11 amended: with seg-adjust on the decimal point counts as a lit segment:
\* the duty cycle of a digit is floor(brightness * (m + p) / 8), m the lit
\* segments among A..G of its character, p = 1 with decimal point, else 0.
C11_DutyCountsDecimalPoint ==
    (seg_adjust /\ visited # << >>) =>
        duty_cycle_percent
          = (brightness_percent
               * (LitBitsAtoG(map_to_seg7(digits[active_digit]))
                    + (IF decimal_points[active_digit] THEN 1 ELSE 0))) \div 8

\* C11 witness: '1' with decimal point at brightness 50 has duty cycle 18,
\* not the 12 of a '1' without.
C11_Witness ==
    /\ seg_adjust
    /\ visited # << >>
    /\ brightness_percent = 50
    /\ digits[active_digit] = 49
    /\ decimal_points[active_digit]
    /\ duty_cycle_percent = 18

\* C12: whatever is written to the brightness attribute, and whenever the
\* timer ticks, brightness_percent and duty_cycle_percent stay in 0..100.
C12_PercentagesInRange ==
    /\ brightness_percent \in 0 .. 100
    /\ duty_cycle_percent \in 0 .. 100

\* C13: whatever is written to the refresh attribute, refresh_rate_hz stays
\* at least 1, so the divisor NUM_DIGITS * refresh_rate_hz of the timer
\* callback is never 0.
C13_RefreshRatePositive ==
    refresh_rate_hz >= 1 /\ NUM_DIGITS * refresh_rate_hz # 0

----------------------------------------------------------------------------
(* What a text written to the digits attribute denotes: characters, each    *)
(* with the decimal point that follows it, a '.' in front of the first      *)
(* character denoting nothing; at most NUM_DIGITS characters are taken.     *)

IsPrintable(c) == c >= 32 /\ c <= 126

AllPrintable(buf) == \A i \in 1 .. Len(buf) : IsPrintable(buf[i])

\* the bytes before the first non-printable byte
RECURSIVE PrintablePrefix(_)
PrintablePrefix(buf) ==
    IF buf = << >> \/ ~IsPrintable(Head(buf)) THEN << >>
    ELSE <<Head(buf)>> \o PrintablePrefix(Tail(buf))

RECURSIVE TextCharacters(_, _, _)
TextCharacters(buf, i, acc) ==
    IF i > Len(buf) THEN acc
    ELSE IF buf[i] = 46
    THEN TextCharacters(buf, i + 1,
            IF acc = << >> THEN acc
            ELSE [acc EXCEPT ![Len(acc)].dp = TRUE])
    ELSE IF Len(acc) = NUM_DIGITS THEN acc
    ELSE TextCharacters(buf, i + 1, Append(acc, [c |-> buf[i], dp |-> FALSE]))

\* k characters in the rightmost k slots, blanks without decimal point left
\* of them
RightAligned(chars) ==
    LET pad == NUM_DIGITS - Len(chars)
    IN  [digits |-> [d \in Digits |->
                       IF d >= pad THEN chars[d - pad + 1].c ELSE 32],
         decimal_points |-> [d \in Digits |->
                       IF d >= pad THEN chars[d - pad + 1].dp ELSE FALSE]]

\* the digits attribute was written last, with a text of printable bytes
DigitsWritten ==
    last_store.attr = "digits" /\ AllPrintable(last_store.buf)

\* C14: a digits write of k < NUM_DIGITS characters leaves them in the
\* rightmost k slots, in input order and with their decimal points, and
\* blanks without decimal point in the slots left of them.
C14_ShortTextRightAligned ==
    LET chars == TextCharacters(last_store.buf, 1, << >>)
    IN  (DigitsWritten /\ Len(chars) < NUM_DIGITS)
            => /\ digits = RightAligned(chars).digits
               /\ decimal_points = RightAligned(chars).decimal_points

\* C15: a digits write of any bytes returns the length of its input, stores
\* what the bytes before the first non-printable byte denote, and so at most
\* NUM_DIGITS characters.
C15_DigitsWriteNeverFails ==
    last_store.attr = "digits"
        => /\ last_store.ret = Len(last_store.buf)
           /\ digits = DigitsStored(PrintablePrefix(last_store.buf)).digits
           /\ decimal_points
                 = DigitsStored(PrintablePrefix(last_store.buf)).decimal_points

\* C16: a '.' right after a stored character sets the decimal point of that
\* character and takes no slot, whichever of the NUM_DIGITS slots the
\* character is in ("1234." sets the decimal point of '4').
C16_PointFollowsCharacter ==
    LET chars == TextCharacters(last_store.buf, 1, << >>)
    IN  (DigitsWritten /\ last_store.buf # << >> /\ Head(last_store.buf) # 46)
            => /\ digits = RightAligned(chars).digits
               /\ decimal_points = RightAligned(chars).decimal_points

\* C17: a '.' at the start of the text is ignored: the write stores what the
\* text without it stores (".12" stores what "12" stores).
C17_LeadingPointIgnored ==
    (DigitsWritten /\ last_store.buf # << >> /\ Head(last_store.buf) = 46)
        => /\ digits = DigitsStored(Tail(last_store.buf)).digits
           /\ decimal_points = DigitsStored(Tail(last_store.buf)).decimal_points

----------------------------------------------------------------------------
(* Writes to the numeric attributes *)

IsSpace(c) == c = 32 \/ (c >= 9 /\ c <= 13)

\* the text starts, after white space, with a decimal number; a '-' may
\* precede the digits of a signed one
StartsNumber(buf, signed) ==
    \E k \in 1 .. Len(buf) :
        /\ IsDigit(buf[k])
        /\ \A i \in 1 .. (k - 1) :
              IsSpace(buf[i]) \/ (signed /\ i = k - 1 /\ buf[i] = 45)

\* a step that is a call of a store handler (a repeated call with the same
\* text that changes nothing is a stuttering step)
StoreStep == last_store' # last_store

\* everything but the attributes and the record of the last store
NotAttributes ==
    <<drv, scan, visited, last_digit, seg_adjust, gpios, pins_tick, work,
      timer_armed, release_pc, clock>>

\* C18: a write to refresh or brightness of a text that is no number leaves
\* the stored values and every other field as they were and returns the
\* length of the text.
C18_UnparseableIgnored ==
    [][(/\ StoreStep
        /\ last_store'.attr \in {"refresh", "brightness"}
        /\ ~StartsNumber(last_store'.buf, last_store'.attr = "brightness"))
        => /\ UNCHANGED <<attrs, NotAttributes>>
           /\ last_store'.ret = Len(last_store'.buf)]_vars

\* C18 witness: "x" was written to refresh after 30 and 50 had been stored,
\* and both values are still there.
C18_Witness ==
    /\ last_store = [attr |-> "refresh", buf |-> <<120>>, ret |-> 1]
    /\ refresh_rate_hz = 30
    /\ brightness_percent = 50
    /\ duty_cycle_percent = 50

\* C19: a write to digits, refresh or brightness changes nothing but its
\* own attribute: no scan state, no pin, no queued dispatch; the timer
\* callback that runs next computes from the values then stored.
C19_WriteChangesOnlyItsField ==
    /\ [][StoreStep =>
            /\ UNCHANGED NotAttributes
            /\ last_store'.attr # "digits"
                  => UNCHANGED <<digits, decimal_points>>
            /\ last_store'.attr # "refresh" => UNCHANGED refresh_rate_hz
            /\ last_store'.attr # "brightness" => UNCHANGED brightness_percent]_vars
    /\ [][nticks' # nticks =>
            /\ period' = TimerPeriod(refresh_rate_hz, resting', duty_cycle_percent')
            /\ ~resting' =>
                  /\ segments_out' = SegmentsOut(digits[active_digit'],
                                                 decimal_points[active_digit'])
                  /\ duty_cycle_percent' = DutyCycle(segments_out',
                                                     brightness_percent, seg_adjust)]_vars

\* C19 witness: 50 was written to brightness while a digit was shown at duty
\* cycle 100; the duty cycle is still 100 and a pin is asserted.
C19_Witness ==
    /\ last_store.attr = "brightness"
    /\ brightness_percent = 50
    /\ ~seg_adjust
    /\ duty_cycle_percent = 100
    /\ nticks >= 1
    /\ SelectAsserted # {}

----------------------------------------------------------------------------
(* Setup of the Displays *)

\* C20 as stated: when a pin of one Display cannot be acquired or
\* configured, that Display is not registered and its timer not started,
\* and every Display set up before it stays registered, its timer running.
C20_FailureSparesSiblings ==
    \A c \in drv.failed :
        /\ c \notin drv.registered
        /\ c \notin drv.timers
        /\ \A sib \in 0 .. (c - 1) :
              sib \in drv.registered /\ sib \in drv.timers

\* C20 amended: the Display is not registered and its timer never started,
\* and the setup fails as a whole: the Displays set up before it are
\* unregistered one by one, the latest first, each with its timer
\* cancelled, and the probe returns the error with no Display left.
C20_FailureUnwindsAll ==
    /\ [](\A c \in drv.failed :
             c \notin drv.registered /\ c \notin drv.timers)
    /\ []((drv.pc = "failed" /\ drv.failed # {})
            => drv.registered = {} /\ drv.timers = {} /\ drv.ret # "0")
    /\ [][(drv.registered' # drv.registered /\ drv.failed # {})
            => \E d \in drv.registered :
                  /\ \A e \in drv.registered : e <= d
                  /\ drv.registered' = drv.registered \ {d}
                  /\ drv.timers' = drv.timers \ {d}]_vars

\* C20 witness: a pin of the third Display failed after two Displays had
\* been registered, and the probe has returned.
C20_Witness ==
    /\ drv.pc = "failed"
    /\ drv.failed = {2}
    /\ drv.num_devices = 2
    /\ drv.registered = {}
    /\ drv.timers = {}

----------------------------------------------------------------------------
(* The segment encoder *)

\* the documented font: the patterns of '0'..'9' and of 'A'..'Z'
FontNumerals == <<63, 6, 91, 79, 102, 109, 125, 7, 127, 111>>

FontLetters ==
    <<119, 126, 57, 62, 121, 113, 125, 118, 6, 14, 118, 56, 55, 55, 63, 115,
      63, 119, 109, 49, 62, 62, 62, 118, 114, 91>>

FontPattern(c) ==
    IF c >= 48 /\ c <= 57 THEN FontNumerals[c - 47]
    ELSE IF c >= 65 /\ c <= 90 THEN FontLetters[c - 64]
    ELSE IF c = 45 THEN 64
    ELSE 0

----------------------------------------------------------------------------
(* Seg-adjust and the length of the active phase *)

\* the length of the active phase of a digit with n lit segments
ActivePhase(n, b, hz) ==
    LET N == NSEC_PER_SEC \div (NUM_DIGITS * hz)
        d == IF b >= 0 THEN (b * n) \div 8 ELSE -(((-b) * n) \div 8)
    IN  IF d > 0 /\ d < 100 THEN (N \div 100) * d ELSE N

\* the digit '4' has just been selected and the slot before it showed '1'
FourAfterOne ==
    /\ seg_adjust
    /\ ~resting
    /\ segments_out = 102
    /\ slot.phases > 0
    /\ slot.segs = 6
    /\ slot.hz = period_hz

----------------------------------------------------------------------------
(* The bookkeeping of last_digit *)

\* C23: whenever no dispatch is in progress, under any interleaving with the
\* timer, a digit-select pin that is asserted is the pin of last_digit.
C23_LastDigitIsAsserted ==
    (Running = {}) => (SelectAsserted \subseteq {last_digit})

----------------------------------------------------------------------------
(* Who writes the scan state *)

\* a step of execute_update_digits
DispatchStep == exec' # exec

\* C24 as stated: the dispatcher writes no field of the scan state, last_digit
\* included; the fields change only in steps of the timer callback.
C24_DispatcherWritesNothing ==
    [][DispatchStep => UNCHANGED <<scan, last_digit>>]_vars

\* C24 amended: active_digit, resting, segments_out and duty_cycle_percent
\* change only in a step of the timer callback (which queues the work item and
\* is no step of a dispatch, a store or the teardown) and the dispatcher only
\* reads them; last_digit is written by the dispatcher alone, as its last
\* statement last_digit = active_digit, and never by the timer callback.
C24_ScanStateWriters ==
    [][/\ DispatchStep => UNCHANGED scan
       /\ (scan' # scan)
             => /\ ~DispatchStep
                /\ work_pending' >= 1
                /\ UNCHANGED <<attrs, last_store, release_pc, timer_armed,
                               last_digit, gpios>>
       /\ (last_digit' # last_digit)
             => /\ DispatchStep
                /\ \E w \in Workers :
                      exec[w].pc = "set_last" /\ exec'[w].pc = "idle"
                /\ last_digit' = active_digit]_vars

\* C24 witness: a dispatch has completed and moved last_digit off its initial
\* value while a segment pattern computed by the timer is in place.
C24_Witness ==
    /\ Running = {}
    /\ last_digit = 2
    /\ segments_out = 127
    /\ SelectAsserted # {}

----------------------------------------------------------------------------
(* The order in which patterns reach the pins *)

\* C25: the number of the advance step whose pattern was last written to a
\* segment pin never decreases: once a dispatch has written the pattern of
\* advance step t, no later write uses a pattern of a step before t, also
\* when firings of the timer coalesce into one dispatch.
C25_FresherNeverOverwritten ==
    [][pins_tick' >= pins_tick]_vars

\* C25 witness: a dispatch is writing the pattern of a step t >= 1 while the
\* timer has fired at least twice since, the firings coalesced into the one
\* pending work item.
C25_Witness ==
    \E w \in DOMAIN exec :
        /\ exec[w].pc = "segment"
        /\ exec[w].tick >= 1
        /\ pins_tick = exec[w].tick
        /\ nticks >= exec[w].tick + 2
        /\ segments_tick > exec[w].tick
        /\ work_pending = 1

----------------------------------------------------------------------------
(* The resting tick *)

\* C26: a timer tick whose advance step ends with resting set leaves
\* active_digit, segments_out and duty_cycle_percent as they were before the
\* tick; of the scan state only resting changes.
C26_RestingTickKeepsDigit ==
    [][(resting' /\ ~resting)
         => UNCHANGED <<active_digit, segments_out, duty_cycle_percent,
                        last_digit>>]_vars

\* C26 witness: the engine rests on digit 2, an '8' at duty cycle 50.
C26_Witness ==
    /\ resting
    /\ active_digit = 2
    /\ segments_out = 127
    /\ duty_cycle_percent = 50

----------------------------------------------------------------------------
(* The resting dispatch *)

\* worker w observes resting set and returns
RestingReturn(w) ==
    /\ exec[w].pc = "check_rest"
    /\ exec'[w].pc = "idle"

\* C27: a dispatch that observes resting set has de-asserted the select pin
\* of last_digit and does nothing else (no pin is written and last_digit is
\* left alone by its return), so when it completes no digit-select pin of
\* the Display is asserted.
C27_RestingDispatchLeavesDark ==
    [][\A w \in DOMAIN exec :
         RestingReturn(w)
           => /\ UNCHANGED <<gpios, last_digit>>
              /\ gpios[SEGLED_GPIO_DIGIT_1 + last_digit] = 0
              /\ SelectAsserted' = {}]_vars

----------------------------------------------------------------------------
(* The order of the pin writes *)

\* worker w writes a segment pin
SegmentWrite(w) ==
    /\ exec[w].pc = "segment"
    /\ exec'[w] # exec[w]

\* C28: in a non-resting dispatch the segment pins are written after the
\* select pin of last_digit is de-asserted and before the select pin of
\* active_digit is asserted (a segment write changes no select pin and the
\* assertion follows the write of segment P); hence, under any interleaving
\* with the timer, no digit-select pin is asserted when a segment pin is
\* written.
C28_SegmentsWrittenDark ==
    [][\A w \in DOMAIN exec :
         SegmentWrite(w)
           => /\ SelectAsserted' = SelectAsserted
              /\ exec'[w].pc = (IF exec[w].gpio = SEGLED_GPIO_SEGMENT_P
                                THEN "on_active" ELSE "segment")
              /\ SelectAsserted = {}]_vars

----------------------------------------------------------------------------
(* The period at a duty cycle of 0 or 100 *)

\* C29: a tick that computes a duty cycle of 0 or 100 re-arms the timer by
\* floor(1,000,000,000 / (digit_count * refresh_rate_hz)) ns for the refresh
\* rate it read, so NUM_DIGITS such periods span at most 1 / refresh_rate_hz
\* seconds.
C29_FullPeriodUnscaled ==
    [][(nticks' # nticks /\ ~resting' /\ duty_cycle_percent' \in {0, 100})
         => /\ period' = (NSEC_PER_SEC \div NUM_DIGITS) \div refresh_rate_hz
            /\ period_hz' = refresh_rate_hz
            /\ expires' = expires + period'
            /\ NUM_DIGITS * period' <= NSEC_PER_SEC \div refresh_rate_hz]_vars

----------------------------------------------------------------------------
(* The period is never 0 *)

\* C35: whenever refresh_rate_hz >= 1 and the duty cycle is in [0, 100], a
\* tick, resting or active, re-arms the timer by a period strictly greater
\* than 0 ns, so the new deadline is strictly later than the one it fired at.
C35_PeriodPositive ==
    [][(nticks' # nticks /\ refresh_rate_hz >= 1
          /\ duty_cycle_percent' \in 0 .. 100)
         => /\ period' > 0
            /\ expires' > expires]_vars

----------------------------------------------------------------------------
(* The pins after teardown *)

\* C36: once gpio_segled_device_release has completed, no digit-select line
\* of the Display is asserted: the display is dark.
C36_TeardownLeavesDark ==
    release_pc = "released" => SelectAsserted = {}

----------------------------------------------------------------------------
(* Reading the digits attribute and writing the text back *)

\* C37: a write to the digits attribute of the very text that a read of it
\* returns leaves digits and decimal_points as they were, for every content
\* that writes to the attribute can produce.
C37_ShowStoreRoundTrip ==
    [][(last_store'.attr = "digits" /\ last_store'.buf = digits_show)
         => /\ digits' = digits
            /\ decimal_points' = decimal_points]_vars

----------------------------------------------------------------------------
(* Resting and the duty cycle *)

\* C38: after a timer tick resting is TRUE only with a duty cycle strictly
\* between 0 and 100, and a tick that finds the Display resting leaves it not
\* resting, so resting is never TRUE after both of two consecutive ticks;
\* the attribute writes between the ticks do not matter.
C38_RestingOnlyMidDuty ==
    [][TimerTickStep
         => /\ resting' => (0 < duty_cycle_percent' /\ duty_cycle_percent' < 100)
            /\ resting => ~resting']_vars

\* the Display rests although the brightness was written to 0 since the
\* duty cycle was computed
C38_Witness ==
    /\ resting
    /\ last_store.attr = "brightness"
    /\ brightness_percent = 0
    /\ 0 < duty_cycle_percent /\ duty_cycle_percent < 100

----------------------------------------------------------------------------
(* The indices of digits, decimal points and digit-select lines *)

\* the lines that select a digit
DigitPins == SEGLED_GPIO_DIGIT_1 .. (SEGLED_GPIO_MAX - 1)

\* the index the shift loop of the running digits write copies from
WriterLoadIndex ==
    IF writer.pc \in {"shift_digit", "shift_point"} /\ writer.digit_in >= 0
    THEN {writer.digit_in} ELSE {}

\* C39: active_digit and last_digit are in [0, NUM_DIGITS) in every state, so
\* the dispatcher indexes digit-select lines only, and every store of a
\* digits write (and every copy of its shift loop) is at digits[i] or
\* decimal_points[i] with i in [0, NUM_DIGITS), whatever the text and its
\* length, 0 included.
C39_IndicesInRange ==
    /\ active_digit \in Digits
    /\ last_digit \in Digits
    /\ SEGLED_GPIO_DIGIT_1 + active_digit \in DigitPins
    /\ SEGLED_GPIO_DIGIT_1 + last_digit \in DigitPins
    /\ writer.idx \in Digits
    /\ WriterLoadIndex \subseteq Digits
    /\ DOMAIN digits = Digits
    /\ DOMAIN decimal_points = Digits

\* the shift loop of a write of the empty text pads digit 0, with the
\* dispatcher about to assert the select line of the last digit
C39_Witness ==
    /\ writer.pc = "shift_digit"
    /\ writer.buf = << >>
    /\ writer.digit_out = 0
    /\ writer.digit_in = -NUM_DIGITS
    /\ \E w \in Workers : exec[w].pc = "on_active"
    /\ active_digit = NUM_DIGITS - 1

----------------------------------------------------------------------------
(* The Display at creation *)

\* no timer expiry has run and no attribute has been written
AsCreated ==
    nticks = 0 /\ last_store = NoStore

\* C30: at creation of the Display active_digit = 0, last_digit = 0, resting
\* is false, duty_cycle_percent = 0, every digit is blank with its decimal
\* point off, the refresh rate is 100 Hz and the brightness 100 percent, and
\* the first expiry of the timer is due at once: its deadline is the start
\* time, and the first callback runs for that deadline.
C30_CreationState ==
    /\ [](AsCreated =>
            /\ active_digit = 0
            /\ last_digit = 0
            /\ resting = FALSE
            /\ duty_cycle_percent = 0
            /\ \A d \in Digits : digits[d] = 32 /\ decimal_points[d] = FALSE
            /\ refresh_rate_hz = 100
            /\ brightness_percent = 100
            /\ expires = StartTime
            /\ now = StartTime
            /\ (release_pc = "live" => timer_armed))
    /\ [][(AsCreated /\ nticks' = 1)
            => /\ now' - StartTime \in {0, Jitter}
               /\ expires' = StartTime + period'
               /\ active_digit' = 1]_vars

\* C30 witness: the first expiry has run at the start time on the Display as
\* created, selecting digit 1, blank, at duty cycle 100.
C30_Witness ==
    /\ nticks = 1
    /\ last_store = NoStore
    /\ writer = IdleWriter
    /\ now = StartTime
    /\ active_digit = 1
    /\ segments_out = 0
    /\ duty_cycle_percent = 100
    /\ expires = StartTime + 2500000

----------------------------------------------------------------------------
(* What the Display shows when dispatches keep up with the timer *)

\* the pattern at the segment pins A..P as a bit mask
RECURSIVE PinsPattern(_)
PinsPattern(g) ==
    IF g > SEGLED_GPIO_SEGMENT_P THEN 0
    ELSE gpios[g] * (2 ^ g) + PinsPattern(g + 1)

\* the documented encoding of digit d of the content
Encoding(d) ==
    FontPattern(digits[d]) + (IF decimal_points[d] THEN 128 ELSE 0)

\* the dispatch of the last expiry has completed
DispatchDone ==
    nticks >= 1 /\ work_pending = 0 /\ Running = {}

\* the content "  12" at brightness 100 without seg-adjust
ShowsBlankBlank12 ==
    /\ digits = [d \in Digits |-> <<32, 32, 49, 50>>[d + 1]]
    /\ brightness_percent = 100
    /\ ~seg_adjust

\* C31: when every dispatch completes before the next expiry and the content
\* is not written, each non-resting tick selects the next digit index in
\* cyclic order and its dispatch leaves exactly that digit's select pin
\* asserted with the segment pins showing the encoding of its character and
\* decimal point, so each digit is lit once per NUM_DIGITS non-resting ticks;
\* the content "  12" at brightness 100 without seg-adjust shows 0x00, 0x00,
\* 0x06, 0x5B on digits 0..3 and never rests.
C31_ShowsContentInOrder ==
    /\ []((DispatchDone /\ ~resting)
            => /\ SelectAsserted = {active_digit}
               /\ last_digit = active_digit
               /\ PinsPattern(SEGLED_GPIO_SEGMENT_A) = Encoding(active_digit))
    /\ []((DispatchDone /\ resting) => SelectAsserted = {})
    /\ [](Len(visited) = NUM_DIGITS
            => /\ VisitedSet = Digits
               /\ \A k \in 1 .. (NUM_DIGITS - 1) :
                     visited[k + 1] = (visited[k] + 1) % NUM_DIGITS)
    /\ [][(nticks' # nticks /\ ~resting')
            => active_digit' = (active_digit + 1) % NUM_DIGITS]_vars
    /\ [](ShowsBlankBlank12
            => /\ ~resting
               /\ (DispatchDone
                     => PinsPattern(SEGLED_GPIO_SEGMENT_A)
                          = <<0, 0, 6, 91>>[active_digit + 1]))

\* C31 witness: "  12" has been scanned once round, digit 0 is lit again
\* after digits 1, 2 and 3 were, and the '2' of digit 3 was the last pattern
\* but one.
C31_Witness ==
    /\ ShowsBlankBlank12
    /\ DispatchDone
    /\ nticks = 5
    /\ visited = <<2, 3, 0, 1>>
    /\ SelectAsserted = {1}
    /\ PinsPattern(SEGLED_GPIO_SEGMENT_A) = 0

----------------------------------------------------------------------------
(* The pattern shown on the digit that is lit *)

\* worker w asserts the select pin of active_digit
SelectWrite(w) ==
    /\ exec[w].pc = "on_active"
    /\ exec'[w].pc = "set_last"

\* C32: under every interleaving of the timer with the dispatcher, when the
\* dispatcher asserts the select pin of a digit the segment pins hold the
\* pattern the advance step computed for that digit: the pattern of the step
\* that selected it, which is segments_out.
C32_LitDigitShowsItsPattern ==
    [][\A w \in DOMAIN exec :
         SelectWrite(w)
           => /\ pins_tick = segments_tick
              /\ PinsPattern(SEGLED_GPIO_SEGMENT_A) = segments_out]_vars

----------------------------------------------------------------------------
(* Every digit is lit again and again *)

\* C33 as stated: with the timer and the dispatcher weakly fair and expiries
\* falling anywhere, so that firings may coalesce, every digit index has its
\* select pin asserted infinitely often.
C33_EveryDigitLitForEver ==
    \A d \in Digits : []<>(gpios[SEGLED_GPIO_DIGIT_1 + d] = 1)

\* C33 amended: with the timer and the dispatcher weakly fair, every digit
\* index has its select pin asserted infinitely often on the runs in which
\* every expiry finds the dispatch of the previous one completed.
C33_EveryDigitLitWhenDispatchKeepsUp ==
    \A d \in Digits : []<>(overrun \/ gpios[SEGLED_GPIO_DIGIT_1 + d] = 1)

\* C33 witness: no expiry has overrun a dispatch, the scan has gone round
\* all four digits and digit 0 is lit again.
C33_Witness ==
    /\ ~overrun
    /\ visited = <<1, 2, 3, 0>>
    /\ work_pending = 0
    /\ Running = {}
    /\ gpios[SEGLED_GPIO_DIGIT_1] = 1

----------------------------------------------------------------------------
(* A timer tick during a write of the digits *)

\* C34: a timer tick that runs while a digits write is in progress reads, for
\* the digit it selects, either the character and decimal flag stored before
\* the write or the ones stored once it has completed, never a value in
\* between.
C34_TickReadsOldOrNew ==
    [][(writer.pc # "idle" /\ active_digit' # active_digit)
         => LET d == active_digit'
            IN  \/ /\ digits[d] = writer.digits[d]
                   /\ decimal_points[d] = writer.decimal_points[d]
                \/ /\ digits[d] = DigitsStored(writer.buf).digits[d]
                   /\ decimal_points[d]
                        = DigitsStored(writer.buf).decimal_points[d]]_vars

====
